---- MODULE Spec2Model ----
(***************************************************************************)
(* Model of camoco/cli/commands/locality.py: the locality() command and    *)
(* the generate_data() pipeline (OLS fit, windowing, window merge, boundary *)
(* maps, z-scores, FDR / p-value).                                          *)
(*                                                                         *)
(* Numbers.  Degrees are integers.  An OLS fit through the origin has the   *)
(* slope Sxy/Sxx, so every fitted value and residual of one table is a      *)
(* multiple of 1/Sxx: a row stores the numerators (fitted, resid) and the   *)
(* common denominator (den).  A float that may be non-finite is a record    *)
(* [k, n, d]: k = "num" is the rational n/d (d > 0), k = "nan", "inf" and   *)
(* "ninf" are the IEEE values.                                              *)
(*                                                                         *)
(* Inputs.  The network and the candidate selector are outside this file:   *)
(* a gene set is a multiset of (global, local) degree pairs, written in one *)
(* order; rows that tie on a sort key keep that order.  A run has one term  *)
(* per call of generate_data, a valid snp2gene mapping and no plots.  An    *)
(* empty bootstrap table is taken to pass the OLS fit, so that the          *)
(* windowing is the step that decides what happens to it.                   *)
(***************************************************************************)
EXTENDS Integers, Sequences, FiniteSets, TLC

VARIABLES
    \* ---- locality(): the file system and one run of the command
    files,          \* paths of the files that exist
    dirs,           \* paths of the directories that exist
    completed,      \* history: the output names whose run wrote its table
    rpc,            \* position of the run
    arg_out,        \* args.out as given on the command line
    out,            \* args.out after line 25
    todo,           \* terms still to analyse
    all_results,    \* number of tables appended to all_results
    \* ---- generate_data(): arguments
    regression_window_size,
    num_bootstraps,
    gene_specific,
    \* ---- generate_data(): position, exception, tables and locals
    pc,
    raised,
    loc,
    bsloc,
    fdr,
    window_ticks,
    win_map,
    win_std,
    fit_std,
    num_random,
    num_real,
    zfdr

runVars == <<files, dirs, completed, rpc, arg_out, out, todo, all_results>>
argVars == <<regression_window_size, num_bootstraps, gene_specific>>
genVars == <<pc, raised, loc, bsloc, fdr, window_ticks, win_map, win_std, fit_std,
             num_random, num_real, zfdr>>
vars == <<runVars, argVars, genVars>>

\* ------------------------------------------------------------------ bounds
\* Largest enrichment-bootstrap population of the windowing specification.
MaxN == 7
\* Largest enrichment-bootstrap population of the full pipeline.
MaxNF == 2
\* Largest regression_window_size.
MaxW == 3
\* Largest num_bootstraps.
MaxB == 2
\* Largest number of FDR-bootstrap records (all iterations together).
MaxFdr == 2
\* Largest number of empirical candidate genes.
MaxLoc == 2
\* Largest number of terms of one run.
MaxTerms == 2
\* Highest z-score threshold of the FDR loop: range(0,8).
MaxZ == 7

\* ------------------------------------------------------------------ floats
Num(n, d) == [k |-> "num", n |-> n, d |-> d]
NaN == [k |-> "nan", n |-> 0, d |-> 1]
PosInf == [k |-> "inf", n |-> 0, d |-> 1]
NegInf == [k |-> "ninf", n |-> 0, d |-> 1]
One == Num(1, 1)
Zero == Num(0, 1)

IsFinite(x) == x.k = "num"

\* x >= t for an integer t, as the float comparison decides it (NaN compares False).
FGe(x, t) ==
    \/ x.k = "inf"
    \/ x.k = "num" /\ x.n >= t * x.d

\* x < y in the order `sort(ascending=False)` uses, NaN placed last.
FRank(x) == CASE x.k = "nan" -> 0 [] x.k = "ninf" -> 1 [] x.k = "num" -> 2 [] OTHER -> 3
FLess(x, y) ==
    IF x.k = "num" /\ y.k = "num" THEN x.n * y.d < y.n * x.d
    ELSE FRank(x) < FRank(y)

RatEq(x, y) == x.k = "num" /\ y.k = "num" /\ x.n * y.d = y.n * x.d

\* ------------------------------------------------------------------ sequences
RECURSIVE SumSeq(_)
SumSeq(s) == IF s = <<>> THEN 0 ELSE Head(s) + SumSeq(Tail(s))

Range(s) == {s[i] : i \in 1..Len(s)}

SetMax(S) == CHOOSE x \in S : \A y \in S : y <= x
SetMin(S) == CHOOSE x \in S : \A y \in S : x <= y

\* ------------------------------------------------------------------ inputs
\* The (global, local) degrees the network returns for a gene, in a fixed order.
DegreePairs ==
    << [global |-> 1, local |-> 0],
       [global |-> 1, local |-> 1],
       [global |-> 2, local |-> 1] >>

\* The non-decreasing sequences of n indices in 1..m: one per multiset.
RECURSIVE NonDecr(_, _)
NonDecr(n, m) ==
    IF n = 0 THEN {<<>>}
    ELSE UNION { { Append(s, x) : x \in (IF s = <<>> THEN 1 ELSE s[Len(s)])..m } :
                 s \in NonDecr(n - 1, m) }

\* The gene sets of between lo and hi genes, each written once (ordered by degree pair).
GeneSets(lo, hi) ==
    UNION { { [i \in 1..n |-> DegreePairs[s[i]]] : s \in NonDecr(n, Len(DegreePairs)) } :
            n \in lo..hi }

\* The FDR-bootstrap gene sets of b iterations: at most hi rows in all, at least one
\* of every iteration, each tagged with the iteration it comes from, in pd.concat
\* order.
FdrSets(b, hi) ==
    LET K == Len(DegreePairs)
        iter(x) == (x - 1) \div K
    IN  UNION { { [i \in 1..n |->
                     [iter_name |-> <<"fdr", iter(s[i])>>] @@
                     DegreePairs[((s[i] - 1) % K) + 1]] :
                  s \in { s \in NonDecr(n, b * K) :
                            \A x \in 0..(b - 1) : \E i \in 1..n : iter(s[i]) = x } } :
                n \in b..hi }

\* The candidate genes of a term, the enrichment bootstraps of the two
\* specifications, and the FDR bootstraps for each num_bootstraps.
EmpiricalGenes == GeneSets(1, MaxLoc)
BootstrapGenes == GeneSets(0, MaxNF)
BootstrapGenesWin == GeneSets(0, MaxN)
FdrGenes == [b \in 1..MaxB |-> FdrSets(b, MaxFdr)]

\* ------------------------------------------------------------------ OLS
\* sm.OLS(local, global).fit(): slope Sxy/Sxx, fitted = slope*global,
\* resid = local - fitted, both stored over the denominator Sxx.
OLS(rows) ==
    LET Sxx == SumSeq([i \in 1..Len(rows) |-> rows[i].global * rows[i].global])
        Sxy == SumSeq([i \in 1..Len(rows) |-> rows[i].global * rows[i].local])
        den == IF Sxx = 0 THEN 1 ELSE Sxx
        num == IF Sxx = 0 THEN 0 ELSE Sxy
    IN  [i \in 1..Len(rows) |->
            [den |-> den,
             fitted |-> rows[i].global * num,
             resid |-> rows[i].local * den - rows[i].global * num] @@ rows[i]]

\* ------------------------------------------------------------------ sort
\* Whether row a is placed after row b by DataFrame.sort(key).
After(a, b, key) ==
    CASE key = "fitted" -> a.fitted * b.den > b.fitted * a.den
      [] key = "global" -> a.global > b.global
      [] OTHER -> FLess(a.zscore, b.zscore)

RECURSIVE Insert(_, _, _)
Insert(s, r, key) ==
    IF s = <<>> THEN <<r>>
    ELSE IF After(Head(s), r, key) THEN <<r>> \o s
    ELSE <<Head(s)>> \o Insert(Tail(s), r, key)

RECURSIVE Sort(_, _)
Sort(rows, key) ==
    IF rows = <<>> THEN <<>>
    ELSE Insert(Sort(SubSeq(rows, 1, Len(rows) - 1), key), rows[Len(rows)], key)

\* The rows with their iter_name column set to name.
Tag(rows, name) == [i \in 1..Len(rows) |-> [iter_name |-> name] @@ rows[i]]

\* ------------------------------------------------------------------ windowing
\* line 130: num_windows = len(bsloc) // args.regression_window_size
NumWindows(n, w) == n \div w

\* The ticks rounded up instead of down.
WindowTicksCeil(n, nw) == (n + nw - 1) \div nw

\* line 131: window_ticks = len(bsloc) // num_windows
WindowTicks(n, nw) == n \div nw

\* lines 132 and 198: int(i / window_ticks), i >= 0
WindowOf(i, ticks) == i \div ticks

MaxWindow(rows) == SetMax({rows[i].window : i \in 1..Len(rows)})
InWindow(rows, wd) == {i \in 1..Len(rows) : rows[i].window = wd}
Windows(rows) == {rows[i].window : i \in 1..Len(rows)}

\* The test of line 135 with an integer half.
MergeNeededFloor(cnt, w) == cnt < w \div 2

\* line 135: sum(window == max_window) < regression_window_size / 2  (true division)
MergeNeeded(cnt, w) == 2 * cnt < w

\* lines 134-136
MergeLast(rows, w) ==
    LET max_window == MaxWindow(rows)
    IN  IF MergeNeeded(Cardinality(InWindow(rows, max_window)), w)
        THEN [i \in 1..Len(rows) |->
                IF rows[i].window = max_window
                THEN [rows[i] EXCEPT !.window = max_window - 1]
                ELSE rows[i]]
        ELSE rows

\* ------------------------------------------------------------------ boundary maps
\* np.max(df['fitted']) of one window (numerator over the table's den).
MaxFitted(rows, wd) == SetMax({rows[i].fitted : i \in InWindow(rows, wd)})

\* The dicts {max fitted: window} the comprehension of lines 138-145 can build:
\* windows with the same maximum collide on one key, and the window that stays is
\* the one the dict iteration yields last.
WinMaps(rows) ==
    LET keys == {MaxFitted(rows, wd) : wd \in Windows(rows)}
    IN  { m \in [keys -> Windows(rows)] : \A f \in keys : MaxFitted(rows, m[f]) = f }

\* df['resid'].std() of one window, as its square: the sample variance
\* (n*Sum r^2 - (Sum r)^2) / (n*(n-1)*den^2), NaN for a window of one row.
WinStd(rows, wd) ==
    LET idx == InWindow(rows, wd)
        n == Cardinality(idx)
        rs == [i \in 1..Len(rows) |-> IF i \in idx THEN rows[i].resid ELSE 0]
        s1 == SumSeq(rs)
        s2 == SumSeq([i \in 1..Len(rows) |-> rs[i] * rs[i]])
    IN  IF n < 2 THEN NaN
        ELSE Num(n * s2 - s1 * s1, n * (n - 1) * rows[1].den * rows[1].den)

\* ------------------------------------------------------------------ smoothing
\* The positive standard deviations a smoothed curve takes in the model.
SdPos == {Num(1, 16), Num(1, 4)}

\* statsmodels' lowess over the (boundary, window sd) points, lines 156-164: one
\* smoothed value per boundary.  The smoother is a library; of its result the model
\* keeps that a NaN point stays NaN, that points that are all 0 smooth to 0, and
\* that positive points smooth to positive values; the value itself is any of SdPos.
Lowess(points) ==
    LET finite == {f \in DOMAIN points : points[f].k = "num"}
        allzero == \A f \in finite : points[f].n = 0
        haszero == \E f \in finite : points[f].n = 0
        choices(f) ==
            IF points[f].k = "nan" THEN {NaN}
            ELSE IF allzero THEN {Zero}
            ELSE IF haszero THEN SdPos \cup {Zero}
            ELSE SdPos
    IN  { m \in [DOMAIN points -> SdPos \cup {Zero, NaN}] :
            \A f \in DOMAIN points : m[f] \in choices(f) }

\* NearestDict.__getitem__: the value at the smallest key >= the query qn/qd, the
\* last key's value for a query above every key.  Keys are numerators over d.den.
Nearest(d, qn, qd) ==
    LET keys == DOMAIN d.sd
        above == {f \in keys : f * qd >= qn * d.den}
    IN  d.sd[IF above # {} THEN SetMin(above) ELSE SetMax(keys)]

\* ------------------------------------------------------------------ z-scores
\* x['resid'] / x['bs_std'] in float64 arithmetic: resid = r/den, bs_std = sd.
Divide(r, den, sd) ==
    IF sd.k = "nan" THEN NaN
    ELSE IF sd.n = 0
         THEN (IF r > 0 THEN PosInf ELSE IF r < 0 THEN NegInf ELSE NaN)
         ELSE Num(r * sd.d, den * sd.n)

\* lines 168-169, 172-173, 201-202: the bs_std and zscore columns.
ZScoreRows(rows, d) ==
    [i \in 1..Len(rows) |->
        LET sd == Nearest(d, rows[i].fitted, rows[i].den)
        IN  [bs_std |-> sd, zscore |-> Divide(rows[i].resid, rows[i].den, sd)] @@ rows[i]]

\* Some row is divided by a standard deviation of exactly 0.
ZeroStd(rows, d) ==
    \E i \in 1..Len(rows) :
        LET sd == Nearest(d, rows[i].fitted, rows[i].den) IN sd.k = "num" /\ sd.n = 0

\* How a float division by 0.0 ends: numpy scalars give inf/nan with a warning,
\* Python floats raise ZeroDivisionError; which one a row holds depends on the
\* pandas version that boxed it.
FloatKinds == {"numpy", "python"}

\* ------------------------------------------------------------------ FDR
\* fdr[fdr.zscore >= zscore]
AtLeast(rows, t) == {i \in 1..Len(rows) : FGe(rows[i].zscore, t)}

\* lines 206-210: the mean of the sizes of the groups of fdr_indices by iter_name;
\* a group exists only for an iteration that has a row in fdr_indices.
NumRandom(rows, t) ==
    LET fdr_indices == AtLeast(rows, t)
        groups == {rows[i].iter_name : i \in fdr_indices}
    IN  IF Cardinality(fdr_indices) > 0
        THEN Num(Cardinality(fdr_indices), Cardinality(groups))
        ELSE Zero

\* line 211: sum(loc.zscore >= zscore)
NumReal(rows, t) == Cardinality(AtLeast(rows, t))

\* num_random / num_real; the division raises for a zero divisor.
DivInt(x, m) == IF m = 0 THEN [k |-> "zerodiv", n |-> 0, d |-> 1] ELSE Num(x.n, x.d * m)

\* The FDR with the test of num_random left out.
ZfdrRealOnly(nrandom, nreal) ==
    IF nreal # 0 THEN DivInt(nrandom, nreal) ELSE One

\* lines 212-215
Zfdr(nrandom, nreal) ==
    IF nreal # 0 /\ nrandom.n # 0 THEN DivInt(nrandom, nreal) ELSE One

\* line 216: loc.loc[loc.zscore >= zscore, 'fdr'] = zfdr
AssignFdr(rows, t, v) ==
    [i \in 1..Len(rows) |->
        IF FGe(rows[i].zscore, t) THEN [rows[i] EXCEPT !.fdr = v] ELSE rows[i]]

\* The loop with the thresholds taken from MaxZ down to t.
RECURSIVE FdrLoopDescending(_, _, _)
FdrLoopDescending(rows, z, t) ==
    IF t > MaxZ THEN rows ELSE AssignFdr(FdrLoopDescending(rows, z, t + 1), t, z[t])

\* lines 205-216: thresholds t, t+1, ..., MaxZ in this order, z[t] the FDR at t.
RECURSIVE FdrLoop(_, _, _)
FdrLoop(rows, z, t) ==
    IF t > MaxZ THEN rows ELSE FdrLoop(AssignFdr(rows, t, z[t]), z, t + 1)

\* ------------------------------------------------------------------ aggregate
\* groupby(...).apply(np.mean) of one group: the sums of the columns with the
\* number of rows, cnt; a column's mean is sum/cnt (over den for fitted and resid).
MeanRow(rows, idx, name) ==
    LET col(F(_)) == SumSeq([i \in 1..Len(rows) |-> IF i \in idx THEN F(rows[i]) ELSE 0])
        g(r) == r.global
        l(r) == r.local
        f(r) == r.fitted
        e(r) == r.resid
    IN  [iter_name |-> name, cnt |-> Cardinality(idx), den |-> rows[SetMin(idx)].den,
         global |-> col(g), local |-> col(l), fitted |-> col(f), resid |-> col(e)]

\* x >= average_resid for the mean rows x and a.
MeanGe(x, a) == x.resid * a.cnt * a.den >= a.resid * x.cnt * x.den

\* line 220: one mean row per iter_name present in fdr, in the order of the names.
RECURSIVE GroupMeans(_, _)
GroupMeans(rows, names) ==
    IF names = {} THEN <<>>
    ELSE LET nm == CHOOSE x \in names : \A y \in names : x[2] <= y[2]
         IN  <<MeanRow(rows, {i \in 1..Len(rows) : rows[i].iter_name = nm}, nm)>>
             \o GroupMeans(rows, names \ {nm})

\* lines 222-224: sum([x >= average_resid for x in fdr.resid.values]) / len(fdr)
Pval(means, a) ==
    DivInt(Num(Cardinality({i \in 1..Len(means) : MeanGe(means[i], a)}), 1), Len(means))

\* cob.locality(candidate_genes, include_regression=True), lines 99-102: the
\* degrees of the candidate genes with the fitted and resid columns of their own fit.
EmpiricalLocality(genes) == OLS(genes)

\* ------------------------------------------------------------------ generate_data
Raise(what) ==
    /\ pc' = "error"
    /\ raised' = what

\* lines 93-104: the empirical table.
Empirical ==
    /\ pc = "start"
    /\ \E genes \in EmpiricalGenes :
           loc' = Tag(EmpiricalLocality(genes), <<"emp", 0>>)
    /\ pc' = "bootstrap"
    /\ UNCHANGED <<raised, bsloc, fdr, window_ticks, win_map, win_std, fit_std,
                   num_random, num_real, zfdr>>
    /\ UNCHANGED <<runVars, argVars>>

\* lines 107-125: the enrichment-bootstrap table, drawn from sets, and its fit.
\* (The iteration a row comes from is not read again before the function returns.)
Bootstrap(sets) ==
    /\ pc = "bootstrap"
    /\ \E genes \in sets : bsloc' = OLS(Tag(genes, <<"bs", 0>>))
    /\ pc' = "window"
    /\ UNCHANGED <<raised, loc, fdr, window_ticks, win_map, win_std, fit_std,
                   num_random, num_real, zfdr>>
    /\ UNCHANGED <<runVars, argVars>>

\* lines 128-132: sort by fitted, num_windows, window_ticks, the window column.
Windowing ==
    /\ pc = "window"
    /\ LET sorted == Sort(bsloc, "fitted")
           n == Len(sorted)
           num_windows == NumWindows(n, regression_window_size)
       IN  IF num_windows = 0
           THEN /\ Raise("ZeroDivisionError:131")
                /\ bsloc' = sorted
                /\ UNCHANGED window_ticks
           ELSE /\ window_ticks' = WindowTicks(n, num_windows)
                /\ bsloc' = [i \in 1..n |->
                                [window |-> WindowOf(i - 1, window_ticks')] @@ sorted[i]]
                /\ pc' = "merge"
                /\ UNCHANGED raised
    /\ UNCHANGED <<loc, fdr, win_map, win_std, fit_std, num_random, num_real, zfdr>>
    /\ UNCHANGED <<runVars, argVars>>

\* lines 134-136: the last window joins the one before it when it is small.
Merge ==
    /\ pc = "merge"
    /\ bsloc' = MergeLast(bsloc, regression_window_size)
    /\ pc' = "maps"
    /\ UNCHANGED <<raised, loc, fdr, window_ticks, win_map, win_std, fit_std,
                   num_random, num_real, zfdr>>
    /\ UNCHANGED <<runVars, argVars>>

\* lines 138-152: win_map, win_std and the (boundary, sd) points of fit_std.
WindowMaps ==
    /\ pc = "maps"
    /\ \E m \in WinMaps(bsloc) :
           /\ win_map' = m
           /\ win_std' = [wd \in Windows(bsloc) |-> WinStd(bsloc, wd)]
           /\ fit_std' = [den |-> bsloc[1].den,
                          sd |-> [f \in DOMAIN m |-> win_std'[m[f]]]]
    /\ pc' = "smooth"
    /\ UNCHANGED <<raised, loc, bsloc, fdr, window_ticks, num_random, num_real, zfdr>>
    /\ UNCHANGED <<runVars, argVars>>

\* lines 156-164: fit_std becomes the smoothed curve.
Smooth ==
    /\ pc = "smooth"
    /\ \E m \in Lowess(fit_std.sd) : fit_std' = [fit_std EXCEPT !.sd = m]
    /\ pc' = "zscore"
    /\ UNCHANGED <<raised, loc, bsloc, fdr, window_ticks, win_map, win_std,
                   num_random, num_real, zfdr>>
    /\ UNCHANGED <<runVars, argVars>>

\* lines 168-174: bs_std and zscore of loc and bsloc, each sorted by zscore.
ZScores ==
    /\ pc = "zscore"
    /\ \E fk \in FloatKinds :
           IF fk = "python" /\ (ZeroStd(loc, fit_std) \/ ZeroStd(bsloc, fit_std))
           THEN /\ Raise("ZeroDivisionError:169")
                /\ UNCHANGED <<loc, bsloc>>
           ELSE /\ loc' = Sort(ZScoreRows(loc, fit_std), "zscore")
                /\ bsloc' = Sort(ZScoreRows(bsloc, fit_std), "zscore")
                /\ pc' = "fdrboot"
                /\ UNCHANGED raised
    /\ UNCHANGED <<fdr, window_ticks, win_map, win_std, fit_std,
                   num_random, num_real, zfdr>>
    /\ UNCHANGED <<runVars, argVars>>

\* lines 180-194: the FDR-bootstrap table, sorted by global, and its own fit.
FdrBootstrap ==
    /\ pc = "fdrboot"
    /\ \E genes \in FdrGenes[num_bootstraps] : fdr' = OLS(Sort(genes, "global"))
    /\ pc' = "filter"
    /\ UNCHANGED <<raised, loc, bsloc, window_ticks, win_map, win_std, fit_std,
                   num_random, num_real, zfdr>>
    /\ UNCHANGED <<runVars, argVars>>

\* line 197: fdr[fdr['global'] <= max(loc['global'])]
Filtered(rows, emp) ==
    LET top == SetMax({emp[i].global : i \in 1..Len(emp)})
    IN  SelectSeq(rows, LAMBDA r : r.global <= top)

\* lines 196-202: the filter, the window column and the z-scores of fdr.
FdrFilter ==
    /\ pc = "filter"
    /\ LET kept == Filtered(fdr, loc)
           win == [i \in 1..Len(kept) |->
                     [window |-> WindowOf(kept[i].global, window_ticks)] @@ kept[i]]
       IN  \E fk \in FloatKinds :
              IF fk = "python" /\ ZeroStd(win, fit_std)
              THEN /\ Raise("ZeroDivisionError:202")
                   /\ fdr' = win
              ELSE /\ fdr' = ZScoreRows(win, fit_std)
                   /\ pc' = "mode"
                   /\ UNCHANGED raised
    /\ UNCHANGED <<loc, bsloc, window_ticks, win_map, win_std, fit_std,
                   num_random, num_real, zfdr>>
    /\ UNCHANGED <<runVars, argVars>>

\* lines 204-216: the per-gene FDR.
GeneSpecific ==
    /\ pc = "mode"
    /\ gene_specific
    /\ num_random' = [t \in 0..MaxZ |-> NumRandom(fdr, t)]
    /\ num_real' = [t \in 0..MaxZ |-> NumReal(loc, t)]
    /\ zfdr' = [t \in 0..MaxZ |-> Zfdr(num_random'[t], num_real'[t])]
    /\ IF \E t \in 0..MaxZ : zfdr'[t].k = "zerodiv"
       THEN /\ Raise("ZeroDivisionError:213")
            /\ UNCHANGED loc
       ELSE /\ loc' = FdrLoop([i \in 1..Len(loc) |-> [fdr |-> NaN] @@ loc[i]], zfdr', 0)
            /\ pc' = "done"
            /\ UNCHANGED raised
    /\ UNCHANGED <<bsloc, fdr, window_ticks, win_map, win_std, fit_std>>
    /\ UNCHANGED <<runVars, argVars>>

\* lines 217-224: the aggregate p-value.
Aggregate ==
    /\ pc = "mode"
    /\ ~gene_specific
    /\ LET average == MeanRow(loc, 1..Len(loc), <<"emp", 0>>)
           means == GroupMeans(fdr, {fdr[i].iter_name : i \in 1..Len(fdr)})
           pval == Pval(means, average)
       IN  /\ fdr' = means
           /\ IF pval.k = "zerodiv"
              THEN /\ Raise("ZeroDivisionError:224")
                   /\ loc' = <<average>>
              ELSE /\ loc' = <<[pval |-> pval] @@ average>>
                   /\ pc' = "done"
                   /\ UNCHANGED raised
    /\ UNCHANGED <<bsloc, window_ticks, win_map, win_std, fit_std,
                   num_random, num_real, zfdr>>
    /\ UNCHANGED <<runVars, argVars>>

\* ------------------------------------------------------------------ paths
\* A path is a sequence of pieces; "d/" is a directory piece, ".csv" and
\* "_Locality" are the two substrings the command adds and removes.
Stdout == <<"<stdout>">>

\* The values of args.out a run is started with.
OutArgs == { <<"r">>, <<"r", ".csv">>, <<"r", "_Locality">>, <<"d/", "r">>, Stdout }

\* s.replace('.csv', '')
DropCsv(s) == SelectSeq(s, LAMBDA piece : piece # ".csv")

\* "{}_Locality.csv".format(s.replace('.csv',''))
LocalityCsv(s) == DropCsv(s) \o <<"_Locality", ".csv">>

\* os.path.dirname(s): the pieces up to the last directory piece, '' when none.
Dirname(s) ==
    LET cut == {i \in 1..Len(s) : s[i] = "d/"}
    IN  IF cut = {} THEN <<>> ELSE SubSeq(s, 1, SetMax(cut))

\* line 28: the path whose existence is tested.
GuardPath(o) == LocalityCsv(o)

\* ------------------------------------------------------------------ locality()
\* A run of the command starts with its arguments.
Start ==
    /\ rpc = "idle"
    /\ \E o \in OutArgs, n \in 0..MaxTerms :
           /\ arg_out' = o
           /\ out' = o
           /\ todo' = n
    /\ all_results' = 0
    /\ rpc' = "outdirs"
    /\ UNCHANGED <<files, dirs, completed>>
    /\ UNCHANGED <<argVars, genVars>>

\* lines 24-27: the output name and its directory.
OutDirs ==
    /\ rpc = "outdirs"
    /\ IF out = Stdout
       THEN \* os.path.dirname(sys.stdout) raises TypeError
            /\ rpc' = "error"
            /\ UNCHANGED <<out, dirs>>
       ELSE /\ out' = LocalityCsv(out)
            /\ dirs' = IF Dirname(out') # <<>> THEN dirs \cup {Dirname(out')} ELSE dirs
            /\ rpc' = "guard"
    /\ UNCHANGED <<files, completed, arg_out, todo, all_results>>
    /\ UNCHANGED <<argVars, genVars>>

\* lines 28-34: an existing table ends the run.
Guard ==
    /\ rpc = "guard"
    /\ rpc' = IF GuardPath(out) \in files \cup dirs THEN "skipped" ELSE "load"
    /\ UNCHANGED <<files, dirs, completed, arg_out, out, todo, all_results>>
    /\ UNCHANGED <<argVars, genVars>>

\* lines 36-48: the network, the GWAS and the terms; a term that is not in the
\* GWAS raises.
Load ==
    /\ rpc = "load"
    /\ \E found \in BOOLEAN : rpc' = IF found THEN "terms" ELSE "error"
    /\ UNCHANGED <<files, dirs, completed, arg_out, out, todo, all_results>>
    /\ UNCHANGED <<argVars, genVars>>

\* lines 50-66: one term; generate_data returns its table or raises.
Term ==
    /\ rpc = "terms"
    /\ todo > 0
    /\ \E returns \in BOOLEAN :
           IF returns
           THEN /\ all_results' = all_results + 1
                /\ todo' = todo - 1
                /\ rpc' = "terms"
           ELSE /\ rpc' = "error"
                /\ UNCHANGED <<all_results, todo>>
    /\ UNCHANGED <<files, dirs, completed, arg_out, out>>
    /\ UNCHANGED <<argVars, genVars>>

\* lines 67-74: the table is written to args.out; pd.concat([]) raises.
WriteCsv ==
    /\ rpc = "terms"
    /\ todo = 0
    /\ IF all_results = 0
       THEN /\ rpc' = "error"
            /\ UNCHANGED <<files, completed>>
       ELSE /\ files' = files \cup {out}
            /\ completed' = completed \cup {arg_out}
            /\ rpc' = "done"
    /\ UNCHANGED <<dirs, arg_out, out, todo, all_results>>
    /\ UNCHANGED <<argVars, genVars>>

\* The process ends; the command can be run again.
Exit ==
    /\ rpc \in {"done", "skipped", "error"}
    /\ rpc' = "idle"
    /\ UNCHANGED <<files, dirs, completed, arg_out, out, todo, all_results>>
    /\ UNCHANGED <<argVars, genVars>>

\* ------------------------------------------------------------------ specifications
GenStart ==
    /\ pc = "start"
    /\ raised = "none"
    /\ loc = <<>>
    /\ bsloc = <<>>
    /\ fdr = <<>>
    /\ window_ticks = 0
    /\ win_map = <<>>
    /\ win_std = <<>>
    /\ fit_std = [den |-> 1, sd |-> <<>>]
    /\ num_random = <<>>
    /\ num_real = <<>>
    /\ zfdr = <<>>

\* generate_data is entered from the term loop of a run that writes r_Locality.csv.
Init ==
    /\ files = {}
    /\ dirs = {}
    /\ completed = {}
    /\ rpc = "terms"
    /\ arg_out = <<"r">>
    /\ out = LocalityCsv(<<"r">>)
    /\ todo = 1
    /\ all_results = 0
    /\ regression_window_size \in 1..MaxW
    /\ num_bootstraps \in 1..MaxB
    /\ gene_specific \in BOOLEAN
    /\ GenStart

\* The whole of generate_data.
Next ==
    \/ Empirical
    \/ Bootstrap(BootstrapGenes)
    \/ Windowing
    \/ Merge
    \/ WindowMaps
    \/ Smooth
    \/ ZScores
    \/ FdrBootstrap
    \/ FdrFilter
    \/ GeneSpecific
    \/ Aggregate

Spec == Init /\ [][Next]_vars

\* generate_data up to the boundary maps, over larger bootstrap populations.
NextWin ==
    \/ Empirical
    \/ Bootstrap(BootstrapGenesWin)
    \/ Windowing
    \/ Merge
    \/ WindowMaps

\* The windowing reads regression_window_size alone of the arguments.
InitWin ==
    /\ files = {}
    /\ dirs = {}
    /\ completed = {}
    /\ rpc = "terms"
    /\ arg_out = <<"r">>
    /\ out = LocalityCsv(<<"r">>)
    /\ todo = 1
    /\ all_results = 0
    /\ regression_window_size \in 1..MaxW
    /\ num_bootstraps = 1
    /\ gene_specific = TRUE
    /\ GenStart

SpecWin == InitWin /\ [][NextWin]_vars

\* The command, run again and again over one file system.
InitRun ==
    /\ files = {}
    /\ dirs = {}
    /\ completed = {}
    /\ rpc = "idle"
    /\ arg_out = <<>>
    /\ out = <<>>
    /\ todo = 0
    /\ all_results = 0
    /\ regression_window_size = 1
    /\ num_bootstraps = 1
    /\ gene_specific = FALSE
    /\ GenStart

NextRun ==
    \/ Start
    \/ OutDirs
    \/ Guard
    \/ Load
    \/ Term
    \/ WriteCsv
    \/ Exit

SpecRun == InitRun /\ [][NextRun]_vars

\* ------------------------------------------------------------------ claims
N == Len(bsloc)
PostMerge == pc \in {"maps", "smooth"}

\* C1: once a run with output name X has written its table, no later run with the
\* same X gets past the guard: it never loads the network or analyses a term again.
ReRunGuard == rpc \in {"load", "terms"} => arg_out \notin completed

\* C2: a bootstrap population smaller than one window (N < w, N = 0 included) does
\* not fail in the windowing step and ends with every row in window 0.
SmallPopulationOneWindow ==
    (pc \notin {"start", "bootstrap", "window"} /\ N < regression_window_size)
        => /\ pc # "error"
           /\ \A i \in 1..N : bsloc[i].window = 0

\* C3 as stated: for N >= w, after windowing and merge there are floor(N/w) distinct
\* window indices and every row's index lies in 0 .. floor(N/w)-1.
WindowCountIsFloor ==
    (PostMerge /\ N >= regression_window_size)
        => /\ Cardinality(Windows(bsloc)) = N \div regression_window_size
           /\ \A i \in 1..N :
                 bsloc[i].window \in 0..((N \div regression_window_size) - 1)

\* C3 as amended: for N >= w, with q = floor(N/w), ticks = floor(N/q) and
\* s = N - q*ticks left-over rows, there are q distinct window indices when
\* s < w/2 and q+1 when s >= w/2, and every row's index lies in
\* 0 .. (number of windows)-1.
WindowCountWithLeftover ==
    (PostMerge /\ N >= regression_window_size)
        => LET w == regression_window_size
               q == N \div w
               s == N - q * (N \div q)
               count == IF 2 * s >= w THEN q + 1 ELSE q
           IN  /\ Cardinality(Windows(bsloc)) = count
               /\ \A i \in 1..N : bsloc[i].window \in 0..(count - 1)

\* C3 witness: a population of at least w rows that keeps a window for its leftover.
LeftoverWindowKept ==
    /\ PostMerge
    /\ N >= regression_window_size
    /\ Cardinality(Windows(bsloc)) = (N \div regression_window_size) + 1

\* C6: the merge step moves every row of the highest window to max_window-1 when
\* that window holds fewer than w/2 rows, leaving none at the old maximum, changes
\* no index otherwise, and never yields a negative index.
MergeRule ==
    [][pc = "merge" =>
        LET max_window == MaxWindow(bsloc)
            cnt == Cardinality(InWindow(bsloc, max_window))
        IN  /\ Len(bsloc') = N
            /\ 2 * cnt < regression_window_size =>
                  \A i \in 1..N :
                     /\ bsloc'[i].window =
                          IF bsloc[i].window = max_window THEN max_window - 1
                          ELSE bsloc[i].window
                     /\ bsloc'[i].window # max_window
            /\ 2 * cnt >= regression_window_size =>
                  \A i \in 1..N : bsloc'[i].window = bsloc[i].window
            /\ \A i \in 1..N : bsloc'[i].window >= 0]_vars

\* C6 witness: after the merge the highest index is below the one the windowing gave
\* the last row.
MergeHappened ==
    /\ pc = "maps"
    /\ MaxWindow(bsloc) < WindowOf(N - 1, window_ticks)

\* C10: rows with equal fitted value share a window, and win_map and fit_std hold
\* one entry per window.
TiesShareWindow ==
    PostMerge =>
        /\ \A i, j \in 1..N :
              bsloc[i].fitted = bsloc[j].fitted => bsloc[i].window = bsloc[j].window
        /\ pc = "smooth" =>
              /\ Cardinality(DOMAIN win_map) = Cardinality(Windows(bsloc))
              /\ Cardinality(DOMAIN fit_std.sd) = Cardinality(Windows(bsloc))

\* C4: in aggregate mode the stored p-value lies in [0, 1] and equals
\* k / num_bootstraps, k the number of iteration means >= the empirical mean, also
\* when the filter has removed every row of some iteration.
AggregatePvalue ==
    (~gene_specific /\ pc = "done") =>
        LET p == loc[1].pval
            k == Cardinality({i \in 1..Len(fdr) : MeanGe(fdr[i], loc[1])})
        IN  /\ p.k = "num"
            /\ 0 <= p.n /\ p.n <= p.d
            /\ p.n * num_bootstraps = k * p.d

\* C5: at every threshold the FDR is 1 when num_real or num_random is 0 and
\* num_random/num_real otherwise, and the step never divides by a zero num_real.
FdrFallback ==
    /\ raised # "ZeroDivisionError:213"
    /\ (gene_specific /\ pc = "done") =>
          \A t \in 0..MaxZ :
             IF num_real[t] = 0 \/ num_random[t].n = 0
             THEN zfdr[t] = One
             ELSE RatEq(zfdr[t], Num(num_random[t].n, num_random[t].d * num_real[t]))

\* C5 witness: one threshold falls back on a zero num_real, another is a true ratio.
FdrBothCases ==
    /\ gene_specific
    /\ pc = "done"
    /\ \E t \in 0..MaxZ : num_real[t] = 0 /\ num_random[t].n > 0
    /\ \E t \in 0..MaxZ : num_real[t] > 1 /\ num_random[t].n > 0 /\ zfdr[t] # One

\* C7: no non-finite z-score (NaN, Inf) of loc or fdr reaches the FDR step.
NonFiniteHandled ==
    pc = "mode" =>
        /\ \A i \in 1..Len(loc) : IsFinite(loc[i].zscore)
        /\ \A i \in 1..Len(fdr) : IsFinite(fdr[i].zscore)

\* C8: num_random(t) is the number of qualifying FDR rows divided by the number of
\* FDR-bootstrap iterations (stated for tables whose z-scores are all finite).
NumRandomOverAllIterations ==
    (/\ gene_specific
     /\ pc = "done"
     /\ \A i \in 1..Len(fdr) : IsFinite(fdr[i].zscore)) =>
        \A t \in 0..MaxZ :
           num_random[t].n * num_bootstraps
               = Cardinality(AtLeast(fdr, t)) * num_random[t].d

\* min(floor(z), MaxZ) for a z-score z >= 0.
FloorCapped(z) ==
    IF z.k = "inf" \/ z.n \div z.d > MaxZ THEN MaxZ ELSE z.n \div z.d

\* C9: an empirical row with z >= 0 stores the FDR of threshold min(floor(z), 7);
\* a row with z < 0 is given no FDR.
HighestThresholdWins ==
    (gene_specific /\ pc = "done") =>
        \A i \in 1..Len(loc) :
           IF FGe(loc[i].zscore, 0)
           THEN loc[i].fdr = zfdr[FloorCapped(loc[i].zscore)]
           ELSE loc[i].fdr = NaN

\* C9 witness: a row whose last threshold is above 0 and overwrote the FDR of 0,
\* beside a row with a negative z-score.
LaterThresholdOverwrote ==
    /\ gene_specific
    /\ pc = "done"
    /\ \E i \in 1..Len(loc) :
          /\ IsFinite(loc[i].zscore)
          /\ FGe(loc[i].zscore, 1)
          /\ zfdr[FloorCapped(loc[i].zscore)] # zfdr[0]
    /\ \E i \in 1..Len(loc) : IsFinite(loc[i].zscore) /\ loc[i].zscore.n < 0

====
